---- MODULE Spec2Model ----
(***************************************************************************)
(* Model of barbearia/financemodule.py: the record store (four insert-only *)
(* SQLite tables), the create_* handlers, the period classifier, the       *)
(* period loaders, the commission calculator and get_report.               *)
(*                                                                         *)
(* Money is a binary floating-point number (Python float, SQLite REAL).    *)
(* A float is modelled by the integer number of quanta 2^-FracBits it      *)
(* holds, and every arithmetic result is rounded to MantBits significant   *)
(* bits, ties to even: the IEEE-754 double of the code with its 53-bit     *)
(* significand scaled down so that rounding happens on small values.       *)
(***************************************************************************)
EXTENDS Integers, Sequences, FiniteSets, TLC

\* An Optional value: None (Python None, SQL NULL) or Some(x).
None == <<>>
Some(x) == <<x>>
Val(o) == o[1]
Optional(S) == {None} \cup {Some(x) : x \in S}

\* How a function ends: it returns a value or raises.
Return(v) == [raised |-> FALSE, value |-> v]
Raise(e) == [raised |-> TRUE, error |-> e]

----------------------------------------------------------------------------
\* Bounds of the model.

\* Significand width of the modelled float.
MantBits == 5
\* Binary digits after the point of the modelled float.
FracBits == 6
\* Rows the store may hold, over the four tables together.
MaxRows == 3

----------------------------------------------------------------------------
\* Floating-point arithmetic, as float(), +, -, * and / compute it.

RECURSIVE Pow2(_)
Pow2(n) == IF n = 0 THEN 1 ELSE 2 * Pow2(n - 1)

\* The float 1.0, in quanta.
One == Pow2(FracBits)

\* a/d (a >= 0, d > 0) rounded to the nearest integer, ties to even.
RoundHalfEven(a, d) ==
    LET q == a \div d
        r == a % d
    IN  IF 2 * r < d THEN q
        ELSE IF 2 * r > d THEN q + 1
        ELSE IF q % 2 = 0 THEN q ELSE q + 1

\* Integers below this many quanta are floats.
MantLimit == Pow2(MantBits)

\* The spacing of the floats around a magnitude of q quanta.
RECURSIVE Ulp(_, _)
Ulp(q, u) == IF q < MantLimit * u THEN u ELSE Ulp(q, 2 * u)

\* The float nearest to a/d quanta (d > 0).
FRound(a, d) ==
    LET m == IF a < 0 THEN -a ELSE a
        u == Ulp(m \div d, 1)
        v == RoundHalfEven(m, d * u) * u
    IN  IF a < 0 THEN -v ELSE v

\* float(n) of a Python int n, and a float literal such as 100.0.
FromInt(n) == FRound(n * One, 1)

FAdd(x, y) == FRound(x + y, 1)
FSub(x, y) == FRound(x - y, 1)
FMul(x, y) == FRound(x * y, One)
\* x / y for y > 0.
FDiv(x, y) == FRound(x * One, y)

----------------------------------------------------------------------------
\* Dates, as datetime.date and datetime.datetime compute them.

IsLeap(y) == y % 4 = 0 /\ (y % 100 # 0 \/ y % 400 = 0)

\* Days of a common year before the first of each month.
DaysBeforeMonthTable == <<0, 31, 59, 90, 120, 151, 181, 212, 243, 273, 304, 334>>

DaysBeforeMonth(y, m) ==
    DaysBeforeMonthTable[m] + (IF m > 2 /\ IsLeap(y) THEN 1 ELSE 0)

DaysBeforeYear(year) ==
    LET y == year - 1
    IN  y * 365 + (y \div 4) - (y \div 100) + (y \div 400)

\* Proleptic Gregorian ordinal; day 1 is Monday 0001-01-01.
Ymd2Ord(y, m, d) == DaysBeforeYear(y) + DaysBeforeMonth(y, m) + d

\* Ordinal of the Monday that starts ISO week 1 of a year.
IsoWeek1Monday(year) ==
    LET firstday == Ymd2Ord(year, 1, 1)
        firstweekday == (firstday + 6) % 7
        week1monday == firstday - firstweekday
    IN  IF firstweekday > 3 THEN week1monday + 7 ELSE week1monday

\* isocalendar()[:2] of a date or datetime: <<ISO year, ISO week>>.
IsoCalendar(dt) ==
    LET today == Ymd2Ord(dt.year, dt.month, dt.day)
        week == (today - IsoWeek1Monday(dt.year)) \div 7
    IN  IF week < 0
        THEN <<dt.year - 1,
               ((today - IsoWeek1Monday(dt.year - 1)) \div 7) + 1>>
        ELSE IF week >= 52 /\ today >= IsoWeek1Monday(dt.year + 1)
        THEN <<dt.year + 1, 1>>
        ELSE <<dt.year, week + 1>>

\* datetime.date() of a datetime.
DateOf(ts) == [year |-> ts.year, month |-> ts.month, day |-> ts.day]

\* datetime.isoformat(): the text 'YYYY-MM-DDTHH:00:00' as its fields in order.
IsoFormat(ts) == <<ts.year, ts.month, ts.day, ts.hour>>

\* datetime.fromisoformat() of such a text.
FromIsoFormat(s) == [year |-> s[1], month |-> s[2], day |-> s[3], hour |-> s[4]]

MkDate(y, m, d) == [year |-> y, month |-> m, day |-> d]
MkDateTime(y, m, d, h) == [year |-> y, month |-> m, day |-> d, hour |-> h]

----------------------------------------------------------------------------
\* Inputs the handlers are called with.

\* What datetime.now() and date.today() read: Wednesday 2025-01-01.
Now == MkDateTime(2025, 1, 1, 0)
Today == DateOf(Now)
\* Monday 2024-12-30 lies in the same ISO week, 2025-W01, and in another
\* day, month and year.
Timestamps == {MkDateTime(2024, 12, 30, 23)}
RefDates == {MkDate(2024, 12, 30)}
Periods == {"daily", "weekly", "monthly", "yearly"}

CommissionTypes == {"percent", "fixed", "bonus"}
CommissionValues == Optional({FromInt(20)})
Prices == {FromInt(1), FromInt(32)}
BasePrices == {FromInt(2)}
Amounts == {FromInt(1)}
Ids == 1 .. 2

\* Inputs that vary the services, the timestamps and the periods.
BarberIn == [commission_type : {None, Some("percent")},
             commission_value : CommissionValues]
ServiceIn == [base_price : BasePrices]
\* Transactions of any barber and service with no price, stamped now, and
\* transactions of any barber with a price, stamped at any time.
TransactionIn ==
    [barber_id : Ids, service_id : Ids, price : {None}, timestamp : {None}]
    \cup [barber_id : Ids, service_id : {1}, price : {Some(FromInt(1))},
          timestamp : Optional(Timestamps)]
ExpenseIn == [amount : Amounts, timestamp : Optional(Timestamps)]

\* Inputs that vary the commission policies and the prices.
MoneyBarberIn == [commission_type : Optional(CommissionTypes),
                  commission_value : CommissionValues]
MoneyTransactionIn ==
    [barber_id : Ids, service_id : Ids, price : {Some(p) : p \in Prices},
     timestamp : {None}]

----------------------------------------------------------------------------
\* State.

VARIABLES
    barbers,        \* table barbers, in rowid order
    services,       \* table services
    transactions,   \* table transactions
    expenses,       \* table expenses
    response,       \* how the handler this step ended has ended, if it ended one
    last,           \* the last report returned and still current
    rpc,            \* where the running get_report call is
    rArgs,          \* its period and reference_date
    rSeen,          \* the table sizes the store went through since it was called
    rTxs,           \* its local txs
    rExps           \* its local exps

store == <<barbers, services, transactions, expenses>>
locals == <<rpc, rArgs, rTxs, rExps>>
vars == <<barbers, services, transactions, expenses, response, last,
          rpc, rArgs, rSeen, rTxs, rExps>>

Rows == Len(barbers) + Len(services) + Len(transactions) + Len(expenses)

\* Sizes of the three tables get_report reads.
Sizes == [b |-> Len(barbers), t |-> Len(transactions), e |-> Len(expenses)]

NoResponse == [op |-> "none"]

\* The table sizes after an insert are seen by a running get_report call.
Observe == rSeen' = IF rpc = "idle" THEN rSeen ELSE rSeen \cup {Sizes'}

Init ==
    /\ barbers = <<>>
    /\ services = <<>>
    /\ transactions = <<>>
    /\ expenses = <<>>
    /\ response = NoResponse
    /\ last = None
    /\ rpc = "idle"
    /\ rArgs = None
    /\ rSeen = {}
    /\ rTxs = <<>>
    /\ rExps = <<>>

----------------------------------------------------------------------------
\* CRUD endpoints. Each runs its statement on a connection of its own; the
\* tables are insert-only, ids are the AUTOINCREMENT rowids.

\* The 201 response of a create_* handler.
Created(op, id) == [op |-> op, status |-> 201, id |-> id]
\* The HTTPException a handler raises.
HTTPException(op, code) == [op |-> op, status |-> code]

create_barber(b) ==
    /\ Rows < MaxRows
    /\ barbers' = Append(barbers,
                         [id |-> Len(barbers) + 1,
                          commission_type |-> b.commission_type,
                          commission_value |-> b.commission_value])
    /\ response' = Created("create_barber", Len(barbers) + 1)
    /\ last' = None
    /\ UNCHANGED <<services, transactions, expenses, locals>>
    /\ Observe

create_service(s) ==
    /\ Rows < MaxRows
    /\ services' = Append(services,
                          [id |-> Len(services) + 1, base_price |-> s.base_price])
    /\ response' = Created("create_service", Len(services) + 1)
    /\ last' = None
    /\ UNCHANGED <<barbers, transactions, expenses, locals>>
    /\ Observe

\* SELECT base_price FROM services WHERE id = ?, fetchone().
ServiceRow(sid) ==
    IF sid \in 1 .. Len(services) THEN Some(services[sid]) ELSE None

\* Faulty variant: the service's base price wins over an explicit price.
ResolvePriceServiceFirst(t) ==
    IF ServiceRow(t.service_id) # None
    THEN Return(Val(ServiceRow(t.service_id)).base_price)
    ELSE IF t.price = None THEN Raise(400) ELSE Return(Val(t.price))

\* Faulty variant: a missing service prices the transaction at 0.
ResolvePriceDefaultZero(t) ==
    IF t.price = None
    THEN IF ServiceRow(t.service_id) = None THEN Return(0)
         ELSE Return(Val(ServiceRow(t.service_id)).base_price)
    ELSE Return(Val(t.price))

\* The price create_transaction inserts; it raises when the price is
\* omitted and the service lookup finds no row.
ResolvePrice(t) ==
    IF t.price = None
    THEN IF ServiceRow(t.service_id) = None THEN Raise(400)
         ELSE Return(Val(ServiceRow(t.service_id)).base_price)
    ELSE Return(Val(t.price))

\* The service lookup and the insert use two connections; services are
\* insert-only, so the row found cannot change in between and the handler
\* is one step.
create_transaction(t, now) ==
    LET ts == IF t.timestamp = None THEN now ELSE Val(t.timestamp)
        price == ResolvePrice(t)
    IN  IF price.raised
        THEN /\ response' = HTTPException("create_transaction", price.error)
             /\ UNCHANGED <<store, last, locals, rSeen>>
        ELSE /\ Rows < MaxRows
             /\ transactions' = Append(transactions,
                                       [id |-> Len(transactions) + 1,
                                        barber_id |-> t.barber_id,
                                        service_id |-> t.service_id,
                                        price |-> Some(price.value),
                                        timestamp |-> IsoFormat(ts)])
             /\ response' = Created("create_transaction", Len(transactions) + 1)
             /\ last' = None
             /\ UNCHANGED <<barbers, services, expenses, locals>>
             /\ Observe

create_expense(e, now) ==
    LET ts == IF e.timestamp = None THEN now ELSE Val(e.timestamp)
    IN  /\ Rows < MaxRows
        /\ expenses' = Append(expenses,
                              [id |-> Len(expenses) + 1,
                               amount |-> e.amount,
                               timestamp |-> IsoFormat(ts)])
        /\ response' = Created("create_expense", Len(expenses) + 1)
        /\ last' = None
        /\ UNCHANGED <<barbers, services, transactions, locals>>
        /\ Observe

----------------------------------------------------------------------------
\* Reporting helpers.

ValueError == "ValueError"

\* _in_period: returns a boolean, raises ValueError on any other period.
InPeriod(ts, period, reference_date) ==
    IF period = "daily" THEN Return(DateOf(ts) = reference_date)
    ELSE IF period = "weekly"
    THEN Return(IsoCalendar(ts) = IsoCalendar(reference_date))
    ELSE IF period = "monthly"
    THEN Return(<<ts.year, ts.month>> = <<reference_date.year, reference_date.month>>)
    ELSE Raise(ValueError)

\* The dict a loader appends for a row: the row with its timestamp parsed.
Loaded(r) == [r EXCEPT !.timestamp = FromIsoFormat(r.timestamp)]

\* Faulty variant: a kept row is put before the rows kept so far.
RECURSIVE LoadLoopPrepend(_, _, _, _, _)
LoadLoopPrepend(rows, i, period, reference_date, results) ==
    IF i > Len(rows) THEN Return(results)
    ELSE LET ok == InPeriod(FromIsoFormat(rows[i].timestamp), period, reference_date)
         IN  IF ok.raised THEN ok
             ELSE LoadLoopPrepend(rows, i + 1, period, reference_date,
                                  IF ok.value THEN <<Loaded(rows[i])>> \o results
                                  ELSE results)

\* The loop of a loader over the fetched rows, from row i on.
RECURSIVE LoadLoop(_, _, _, _, _)
LoadLoop(rows, i, period, reference_date, results) ==
    IF i > Len(rows) THEN Return(results)
    ELSE LET ok == InPeriod(FromIsoFormat(rows[i].timestamp), period, reference_date)
         IN  IF ok.raised THEN ok
             ELSE LoadLoop(rows, i + 1, period, reference_date,
                           IF ok.value THEN Append(results, Loaded(rows[i]))
                           ELSE results)

\* Faulty variant: the loop starts at the second fetched row.
LoadForPeriodSkipFirst(rows, period, reference_date) ==
    LoadLoop(rows, 2, period, reference_date, <<>>)

\* _load_transactions_for_period and _load_expenses_for_period, given the
\* rows their SELECT fetched.
LoadForPeriod(rows, period, reference_date) ==
    LoadLoop(rows, 1, period, reference_date, <<>>)

\* A Python dict: its items in insertion order.
DictKeys(d) == {d[i].k : i \in DOMAIN d}

DictGet(d, key, default) ==
    IF key \in DictKeys(d)
    THEN d[CHOOSE i \in DOMAIN d : d[i].k = key].v
    ELSE default

\* d[key] = v.
DictSet(d, key, v) ==
    IF key \in DictKeys(d)
    THEN [i \in DOMAIN d |-> IF d[i].k = key THEN [k |-> key, v |-> v] ELSE d[i]]
    ELSE Append(d, [k |-> key, v |-> v])

\* barber_settings: id -> (commission_type, commission_value).
BarberSettings(rows) ==
    [i \in DOMAIN rows |->
        [k |-> rows[i].id, v |-> <<rows[i].commission_type, rows[i].commission_value>>]]

DefaultPercent == 30

\* Faulty variant: a fixed value is applied as a percentage.
CommissionOfFixedAsPercent(setting, price, default_percent) ==
    IF setting[1] \in {Some("percent"), Some("fixed")} /\ setting[2] # None
    THEN FMul(price, FDiv(Val(setting[2]), FromInt(100)))
    ELSE FMul(price, FDiv(default_percent, FromInt(100)))

\* What one transaction adds to its barber's commission.
CommissionOf(setting, price, default_percent) ==
    IF setting[1] = Some("percent") /\ setting[2] # None
    THEN FMul(price, FDiv(Val(setting[2]), FromInt(100)))
    ELSE IF setting[1] = Some("fixed") /\ setting[2] # None
    THEN Val(setting[2])
    ELSE FMul(price, FDiv(default_percent, FromInt(100)))

\* Faulty variant: a transaction whose barber has no row is skipped.
RECURSIVE CommissionLoopKnownOnly(_, _, _, _, _)
CommissionLoopKnownOnly(txs, i, barber_settings, default_percent, commissions) ==
    IF i > Len(txs) THEN commissions
    ELSE LET bid == txs[i].barber_id
             price == Val(txs[i].price)
             setting == DictGet(barber_settings, bid, <<None, None>>)
         IN  CommissionLoopKnownOnly(txs, i + 1, barber_settings, default_percent,
                 IF bid \notin DictKeys(barber_settings) THEN commissions
                 ELSE DictSet(commissions, bid,
                              FAdd(DictGet(commissions, bid, 0),
                                   CommissionOf(setting, price, default_percent))))

\* The loop of _calculate_commissions over the transactions, from i on.
RECURSIVE CommissionLoop(_, _, _, _, _)
CommissionLoop(txs, i, barber_settings, default_percent, commissions) ==
    IF i > Len(txs) THEN commissions
    ELSE LET bid == txs[i].barber_id
             price == Val(txs[i].price)
             setting == DictGet(barber_settings, bid, <<None, None>>)
         IN  CommissionLoop(txs, i + 1, barber_settings, default_percent,
                 DictSet(commissions, bid,
                         FAdd(DictGet(commissions, bid, 0),
                              CommissionOf(setting, price, default_percent))))

\* Faulty variant: every stored barber starts with an entry of 0.
CalculateCommissionsAllBarbers(txs, rows, default_percent) ==
    CommissionLoop(txs, 1, BarberSettings(rows), default_percent,
                   [i \in DOMAIN rows |-> [k |-> rows[i].id, v |-> 0]])

\* _calculate_commissions, given the rows its SELECT fetched.
CalculateCommissions(txs, rows, default_percent) ==
    CommissionLoop(txs, 1, BarberSettings(rows), default_percent, <<>>)

----------------------------------------------------------------------------
\* Report endpoint.

\* Faulty variant: the service total is assigned, not accumulated.
AggregateStepAssign(acc, t) ==
    [counts |-> DictSet(acc.counts, t.barber_id,
                        DictGet(acc.counts, t.barber_id, 0) + 1),
     totals |-> DictSet(acc.totals, t.barber_id,
                        FAdd(DictGet(acc.totals, t.barber_id, 0), Val(t.price))),
     totals_by_service |-> DictSet(acc.totals_by_service, t.service_id, Val(t.price)),
     total_revenue |-> FAdd(acc.total_revenue, Val(t.price))]

\* One turn of the loop of get_report over txs.
AggregateStep(acc, t) ==
    [counts |-> DictSet(acc.counts, t.barber_id,
                        DictGet(acc.counts, t.barber_id, 0) + 1),
     totals |-> DictSet(acc.totals, t.barber_id,
                        FAdd(DictGet(acc.totals, t.barber_id, 0), Val(t.price))),
     totals_by_service |->
         DictSet(acc.totals_by_service, t.service_id,
                 FAdd(DictGet(acc.totals_by_service, t.service_id, 0), Val(t.price))),
     total_revenue |-> FAdd(acc.total_revenue, Val(t.price))]

RECURSIVE AggregateLoop(_, _, _)
AggregateLoop(txs, i, acc) ==
    IF i > Len(txs) THEN acc
    ELSE AggregateLoop(txs, i + 1, AggregateStep(acc, txs[i]))

\* sum(float(e['amount']) for e in exps).
RECURSIVE SumAmounts(_, _, _)
SumAmounts(exps, i, total) ==
    IF i > Len(exps) THEN total
    ELSE SumAmounts(exps, i + 1, FAdd(total, exps[i].amount))

\* str(reference_date): the text 'YYYY-MM-DD' as its fields in order.
DateStr(d) == <<d.year, d.month, d.day>>

\* Faulty variant: total_revenue is a module-level accumulator, carried
\* over from the report returned before.
BuildReportSharedRevenue(period, reference_date, txs, exps, barberRows) ==
    LET acc == AggregateLoop(txs, 1,
                   [counts |-> <<>>, totals |-> <<>>, totals_by_service |-> <<>>,
                    total_revenue |-> IF last # None
                                      THEN Val(last).report.total_revenue ELSE 0])
        total_expenses == SumAmounts(exps, 1, 0)
    IN  [period |-> period,
         reference_date |-> DateStr(reference_date),
         counts_by_barber |-> acc.counts,
         totals_by_barber |-> acc.totals,
         totals_by_service |-> acc.totals_by_service,
         total_revenue |-> acc.total_revenue,
         total_expenses |-> total_expenses,
         net_profit |-> FSub(acc.total_revenue, total_expenses),
         commissions_due |-> CalculateCommissions(txs, barberRows, FromInt(DefaultPercent)),
         transactions |-> txs,
         expenses |-> exps]

\* The dict get_report returns, from its locals and the barbers rows the
\* commission calculator fetched.
BuildReport(period, reference_date, txs, exps, barberRows) ==
    LET acc == AggregateLoop(txs, 1,
                   [counts |-> <<>>, totals |-> <<>>, totals_by_service |-> <<>>,
                    total_revenue |-> 0])
        total_expenses == SumAmounts(exps, 1, 0)
    IN  [period |-> period,
         reference_date |-> DateStr(reference_date),
         counts_by_barber |-> acc.counts,
         totals_by_barber |-> acc.totals,
         totals_by_service |-> acc.totals_by_service,
         total_revenue |-> acc.total_revenue,
         total_expenses |-> total_expenses,
         net_profit |-> FSub(acc.total_revenue, total_expenses),
         commissions_due |-> CalculateCommissions(txs, barberRows, FromInt(DefaultPercent)),
         transactions |-> txs,
         expenses |-> exps]

\* How a get_report call ended: the report it returned, with the table
\* sizes the store went through between its call and its return, or the
\* error it raised.
Returned(args, report, seen) ==
    [op |-> "get_report", args |-> args, raised |-> FALSE, report |-> report,
     seen |-> seen]
Raised(args, error) ==
    [op |-> "get_report", args |-> args, raised |-> TRUE, error |-> error]

\* The report stays current while no row is inserted; it is kept for a call
\* with the same arguments.
KeepLast(args) == IF last # None /\ Val(last).args = args THEN last ELSE None
NewLast(ret) ==
    IF ~ret.raised /\ Cardinality(ret.seen) = 1 THEN Some(ret) ELSE None

\* reference_date defaults to date.today().
Args(period, reference_date, today) ==
    [period |-> period,
     reference_date |-> IF reference_date = None THEN today ELSE Val(reference_date)]

\* get_report run on the tables as they are, with no other handler between
\* its three scans.
GetReportOutcome(args) ==
    LET txs == LoadForPeriod(transactions, args.period, args.reference_date)
        exps == LoadForPeriod(expenses, args.period, args.reference_date)
    IN  IF txs.raised THEN Raised(args, txs.error)
        ELSE IF exps.raised THEN Raised(args, exps.error)
        ELSE Returned(args,
                      BuildReport(args.period, args.reference_date,
                                  txs.value, exps.value, barbers),
                      {Sizes})

\* A whole get_report call, requests being served one at a time.
get_report(period, reference_date, today) ==
    LET args == Args(period, reference_date, today)
        ret == GetReportOutcome(args)
    IN  /\ rpc = "idle"
        /\ response' = ret
        /\ last' = NewLast(ret)
        /\ UNCHANGED <<store, locals, rSeen>>

ClearLocals ==
    /\ rpc' = "idle"
    /\ rArgs' = None
    /\ rSeen' = {}
    /\ rTxs' = <<>>
    /\ rExps' = <<>>

\* Requests being served concurrently: get_report is called and scans the
\* transactions (first connection).
GetReportLoadTransactions(period, reference_date, today) ==
    LET args == Args(period, reference_date, today)
        txs == LoadForPeriod(transactions, args.period, args.reference_date)
    IN  /\ rpc = "idle"
        /\ IF txs.raised
           THEN /\ response' = Raised(args, txs.error)
                /\ last' = None
                /\ UNCHANGED <<locals, rSeen>>
           ELSE /\ rpc' = "txs"
                /\ rArgs' = Some(args)
                /\ rSeen' = {Sizes}
                /\ rTxs' = txs.value
                /\ response' = NoResponse
                /\ last' = KeepLast(args)
                /\ UNCHANGED rExps
        /\ UNCHANGED store

\* It scans the expenses (second connection).
GetReportLoadExpenses ==
    LET args == Val(rArgs)
        exps == LoadForPeriod(expenses, args.period, args.reference_date)
    IN  /\ rpc = "txs"
        /\ IF exps.raised
           THEN /\ response' = Raised(args, exps.error)
                /\ last' = None
                /\ ClearLocals
           ELSE /\ rpc' = "exps"
                /\ rExps' = exps.value
                /\ response' = NoResponse
                /\ UNCHANGED <<rArgs, rSeen, rTxs, last>>
        /\ UNCHANGED store

\* It aggregates, scans the barbers for the commissions (third connection)
\* and returns.
GetReportReturn ==
    LET args == Val(rArgs)
        ret == Returned(args,
                        BuildReport(args.period, args.reference_date,
                                    rTxs, rExps, barbers),
                        rSeen)
    IN  /\ rpc = "exps"
        /\ response' = ret
        /\ last' = NewLast(ret)
        /\ ClearLocals
        /\ UNCHANGED store

----------------------------------------------------------------------------
\* Specifications.

\* Requests served one at a time (the execution model the module is
\* designed for).
Next ==
    \/ \E b \in BarberIn : create_barber(b)
    \/ \E s \in ServiceIn : create_service(s)
    \/ \E t \in TransactionIn : create_transaction(t, Now)
    \/ \E e \in ExpenseIn : create_expense(e, Now)
    \/ \E period \in Periods, reference_date \in Optional(RefDates) :
           get_report(period, reference_date, Today)

Spec == Init /\ [][Next]_vars

\* The same with the inputs that vary the commission policies and the
\* prices.
NextMoney ==
    \/ \E b \in MoneyBarberIn : create_barber(b)
    \/ \E t \in MoneyTransactionIn : create_transaction(t, Now)
    \/ get_report("daily", None, Today)

SpecMoney == Init /\ [][NextMoney]_vars

\* Requests served concurrently (the hosting runtime runs the handlers on a
\* thread pool): the three scans of a get_report call are steps between
\* which the create_* handlers run. The inputs keep one barber id and one service id.
ConcTransactionIn ==
    [barber_id : {1}, service_id : {1}, price : {None, Some(FromInt(1))},
     timestamp : Optional(Timestamps)]
ConcExpenseIn == [amount : Amounts, timestamp : {None}]
ConcPeriods == {"daily", "yearly"}

NextConc ==
    \/ \E b \in BarberIn : create_barber(b)
    \/ \E s \in ServiceIn : create_service(s)
    \/ \E t \in ConcTransactionIn : create_transaction(t, Now)
    \/ \E e \in ConcExpenseIn : create_expense(e, Now)
    \/ \E period \in ConcPeriods : GetReportLoadTransactions(period, None, Today)
    \/ GetReportLoadExpenses
    \/ GetReportReturn

SpecConc == Init /\ [][NextConc]_vars

----------------------------------------------------------------------------
\* Notions the properties are stated with, defined apart from the handlers.

IsReport == response.op = "get_report" /\ ~response.raised
Report == response.report

ValidPeriods == {"daily", "weekly", "monthly"}

Range(seq) == {seq[i] : i \in DOMAIN seq}

\* sum() of a sequence of floats, left to right from 0.
RECURSIVE FSum(_)
FSum(xs) == IF xs = <<>> THEN 0 ELSE FAdd(FSum(SubSeq(xs, 1, Len(xs) - 1)), xs[Len(xs)])

\* sum(d.values()) of a dict.
SumValues(d) == FSum([i \in DOMAIN d |-> d[i].v])

\* The Monday of the week a date lies in, as an ordinal.
MondayOf(d) ==
    LET ord == Ymd2Ord(d.year, d.month, d.day) IN ord - ((ord - 1) % 7)

\* A timestamp text falls in the period of a reference date.
FallsIn(text, period, reference_date) ==
    CASE period = "daily" ->
           <<text[1], text[2], text[3]>>
               = <<reference_date.year, reference_date.month, reference_date.day>>
      [] period = "weekly" ->
           MondayOf(MkDate(text[1], text[2], text[3])) = MondayOf(reference_date)
      [] period = "monthly" ->
           <<text[1], text[2]>> = <<reference_date.year, reference_date.month>>
      [] OTHER -> FALSE

\* The stored rows the classifier accepts, in scan order, as a loader
\* hands them on.
Accepted(rows, args) ==
    LET Accepts(r) ==
            LET ok == InPeriod(FromIsoFormat(r.timestamp), args.period,
                               args.reference_date)
            IN  ~ok.raised /\ ok.value
        kept == SelectSeq(rows, Accepts)
    IN  [i \in DOMAIN kept |->
            [kept[i] EXCEPT !.timestamp = FromIsoFormat(kept[i].timestamp)]]

----------------------------------------------------------------------------
\* C1: commissions_due holds, for each barber id of the loaded
\* transactions, the sum over that barber's transactions of
\* price * (value / 100) under a 'percent' policy with a value, of value
\* under a 'fixed' policy with a value, and of price * (30 / 100) otherwise
\* (no barber row, no policy, unknown kind, missing value).

PolicyOf(bid) ==
    IF \E b \in Range(barbers) : b.id = bid
    THEN LET b == CHOOSE b \in Range(barbers) : b.id = bid
         IN  [kind |-> b.commission_type, value |-> b.commission_value]
    ELSE [kind |-> None, value |-> None]

Contribution(policy, price) ==
    CASE policy.kind = Some("percent") /\ policy.value # None ->
           FMul(price, FDiv(Val(policy.value), FromInt(100)))
      [] policy.kind = Some("fixed") /\ policy.value # None ->
           Val(policy.value)
      [] OTHER -> FMul(price, FDiv(FromInt(30), FromInt(100)))

CommissionSum(txs, bid) ==
    LET own == SelectSeq(txs, LAMBDA t : t.barber_id = bid)
    IN  FSum([i \in DOMAIN own |-> Contribution(PolicyOf(bid), Val(own[i].price))])

C1_Commissions ==
    IsReport =>
        \A bid \in {t.barber_id : t \in Range(Report.transactions)} :
            /\ bid \in DictKeys(Report.commissions_due)
            /\ DictGet(Report.commissions_due, bid, 0)
                   = CommissionSum(Report.transactions, bid)

\* A report over two transactions of a barber with a fixed policy and one
\* of a barber with no row.
C1_Witness ==
    /\ IsReport
    /\ \E b \in Range(barbers) :
          /\ b.commission_type = Some("fixed") /\ b.commission_value # None
          /\ Cardinality({i \in DOMAIN Report.transactions :
                             Report.transactions[i].barber_id = b.id}) = 2
    /\ Len(Report.transactions) = 2

----------------------------------------------------------------------------
\* C2 as stated: total_revenue equals the sum of the values of
\* totals_by_barber and the sum of the values of totals_by_service.

C2_Additivity ==
    IsReport =>
        /\ Report.total_revenue = SumValues(Report.totals_by_barber)
        /\ Report.total_revenue = SumValues(Report.totals_by_service)

\* C2 as amended: each loaded transaction is counted once, and the three
\* sums are equal when no addition rounds, which is so when the loaded
\* prices are multiples of one power of two and their absolute values, in
\* that unit, add up to less than 2^MantBits.

Abs(x) == IF x < 0 THEN -x ELSE x

RECURSIVE Sum(_)
Sum(xs) == IF xs = <<>> THEN 0 ELSE Sum(SubSeq(xs, 1, Len(xs) - 1)) + xs[Len(xs)]

SumsAreExact(txs) ==
    \E k \in 0 .. (FracBits + MantBits) :
        /\ \A t \in Range(txs) : Val(t.price) % Pow2(k) = 0
        /\ Sum([i \in DOMAIN txs |-> Abs(Val(txs[i].price)) \div Pow2(k)]) < MantLimit

C2_AdditivityWhenExact ==
    IsReport =>
        /\ Sum([i \in DOMAIN Report.counts_by_barber |-> Report.counts_by_barber[i].v])
               = Len(Report.transactions)
        /\ SumsAreExact(Report.transactions) =>
               /\ Report.total_revenue
                      = Sum([i \in DOMAIN Report.transactions |->
                                Val(Report.transactions[i].price)])
               /\ Report.total_revenue = SumValues(Report.totals_by_barber)
               /\ Report.total_revenue = SumValues(Report.totals_by_service)

\* A report over three transactions of two barbers and two services whose
\* sums are exact.
C2_Witness ==
    /\ IsReport
    /\ Len(Report.transactions) = 3
    /\ Len(Report.totals_by_barber) = 2
    /\ Len(Report.totals_by_service) = 2
    /\ SumsAreExact(Report.transactions)

----------------------------------------------------------------------------
\* C3: a get_report call with a period other than 'daily', 'weekly' or
\* 'monthly' raises ValueError and returns no report, whatever the store
\* holds.

C3_InvalidPeriodRaises ==
    (response.op = "get_report" /\ response.args.period \notin ValidPeriods)
        => (response.raised /\ response.error = ValueError)

----------------------------------------------------------------------------
\* C4: every stored transaction has a non-null numeric price, and the price
\* a create_transaction call stores is the explicit price when one was
\* given, otherwise the base price of the referenced service.

C4_PriceAtRest ==
    /\ [](\A r \in Range(transactions) : r.price # None /\ Val(r.price) \in Int)
    /\ [][\A t \in TransactionIn :
            (create_transaction(t, Now) /\ Len(transactions') = Len(transactions) + 1)
                => Val(transactions'[Len(transactions')].price)
                       = IF t.price # None THEN Val(t.price)
                         ELSE services[t.service_id].base_price]_vars

\* Two stored transactions, one priced explicitly and one priced by its
\* service.
C4_Witness ==
    /\ Len(services) >= 1
    /\ \E r \in Range(transactions) : r.price = Some(services[1].base_price)
    /\ \E r \in Range(transactions) : r.price = Some(FromInt(1))

----------------------------------------------------------------------------
\* C5: create_transaction called with no price and a service_id that
\* matches no stored service raises the 400 HTTPException and leaves the
\* stored transactions as they were.

C5_MissingServiceRejected ==
    [][\A t \in TransactionIn :
          (/\ t.price = None
           /\ t.service_id \notin {r.id : r \in Range(services)}
           /\ create_transaction(t, Now))
              => /\ response' = HTTPException("create_transaction", 400)
                 /\ transactions' = transactions]_vars

\* Such a call was rejected while a service and a transaction are stored.
C5_Witness ==
    /\ response = HTTPException("create_transaction", 400)
    /\ Len(services) = 1
    /\ Len(transactions) >= 1

----------------------------------------------------------------------------
\* C6: the keys of commissions_due, of counts_by_barber and of
\* totals_by_barber are the barber ids of the loaded transactions, each
\* once; a barber with no loaded transaction has no entry.

LoadedBarberIds == {t.barber_id : t \in Range(Report.transactions)}

KeysAre(d, keys) == DictKeys(d) = keys /\ Len(d) = Cardinality(keys)

C6_CommissionKeys ==
    IsReport =>
        /\ KeysAre(Report.commissions_due, LoadedBarberIds)
        /\ KeysAre(Report.counts_by_barber, LoadedBarberIds)
        /\ KeysAre(Report.totals_by_barber, LoadedBarberIds)

\* A report whose only loaded transaction names a barber with no row, while
\* the stored barber has a transaction outside the period only.
C6_Witness ==
    /\ IsReport
    /\ Len(barbers) = 1
    /\ LoadedBarberIds = {2}
    /\ \E r \in Range(transactions) : r.barber_id = 1
    /\ DictKeys(Report.commissions_due) = {2}

----------------------------------------------------------------------------
\* C7: a get_report call that follows a get_report call with the same
\* period and reference date, no row being inserted in between, returns the
\* same report, and a get_report call leaves the four tables unchanged.

C7_Idempotent ==
    /\ [][(/\ response'.op = "get_report"
           /\ last # None
           /\ response'.args = Val(last).args)
              => (~response'.raised /\ response'.report = Val(last).report)]_vars
    /\ [][response'.op = "get_report" => store' = store]_vars

\* A report over stored rows has been returned and is still current: a
\* repeated call is compared with it.
C7_Witness ==
    /\ IsReport
    /\ last = Some(response)
    /\ Len(Report.transactions) >= 1
    /\ Len(Report.expenses) >= 1
    /\ Len(barbers) >= 1

----------------------------------------------------------------------------
\* C8: the transactions and expenses of a report are the stored rows whose
\* timestamp the period classifier accepts, each once, in scan order.

C8_LoadedInOrder ==
    IsReport =>
        /\ Report.transactions = Accepted(transactions, response.args)
        /\ Report.expenses = Accepted(expenses, response.args)

\* A report that loaded two of three stored transactions.
C8_Witness ==
    /\ IsReport
    /\ Len(transactions) = 3
    /\ Len(Report.transactions) = 2
    /\ Report.transactions[1].id < Report.transactions[2].id

----------------------------------------------------------------------------
\* C9: when no stored transaction and no stored expense falls in the period
\* of the reference date, get_report returns a report with empty mappings,
\* empty sequences and the three totals 0.

NothingInPeriod(args) ==
    /\ \A r \in Range(transactions) :
          ~FallsIn(r.timestamp, args.period, args.reference_date)
    /\ \A r \in Range(expenses) :
          ~FallsIn(r.timestamp, args.period, args.reference_date)

C9_EmptyPeriod ==
    (/\ response.op = "get_report"
     /\ response.args.period \in ValidPeriods
     /\ NothingInPeriod(response.args))
        => /\ ~response.raised
           /\ Report.counts_by_barber = <<>>
           /\ Report.totals_by_barber = <<>>
           /\ Report.totals_by_service = <<>>
           /\ Report.commissions_due = <<>>
           /\ Report.total_revenue = 0
           /\ Report.total_expenses = 0
           /\ Report.net_profit = 0
           /\ Report.transactions = <<>>
           /\ Report.expenses = <<>>

\* Such a report over a store that holds a barber, a transaction and an
\* expense, all outside the period.
C9_Witness ==
    /\ IsReport
    /\ response.args.period \in ValidPeriods
    /\ NothingInPeriod(response.args)
    /\ Len(barbers) = 1
    /\ Len(transactions) = 1
    /\ Len(expenses) = 1

----------------------------------------------------------------------------
\* C10 as stated: a returned report equals the report computed from one
\* single state of the store that existed between the call and its return.

Prefix(seq, n) == SubSeq(seq, 1, n)

\* The report computed from the transactions as of sizes zt, the expenses
\* as of sizes ze and the barbers as of sizes zb.
ReportAt(args, zt, ze, zb) ==
    BuildReport(args.period, args.reference_date,
                Accepted(Prefix(transactions, zt.t), args),
                Accepted(Prefix(expenses, ze.e), args),
                Prefix(barbers, zb.b))

\* A get_report call run in one piece on the store as of sizes z returns.
ReturnsAt(args, z) == args.period \in ValidPeriods \/ (z.t = 0 /\ z.e = 0)

C10_OneSnapshot ==
    IsReport =>
        \E z \in response.seen :
            ReturnsAt(response.args, z) /\ Report = ReportAt(response.args, z, z, z)

\* C10 as amended: the transactions, the expenses and the barber policies
\* of a returned report each come from a state of the store that existed
\* between the call and its return, in this order in time; the three
\* states need not be the same one.

NoLater(z1, z2) == z1.t <= z2.t /\ z1.e <= z2.e /\ z1.b <= z2.b

C10_ThreeSnapshots ==
    IsReport =>
        \E zt, ze, zb \in response.seen :
            /\ NoLater(zt, ze) /\ NoLater(ze, zb)
            /\ Report = ReportAt(response.args, zt, ze, zb)

\* A report returned by a call during which a transaction and then an
\* expense were inserted, the report holding the expense only.
C10_Witness ==
    /\ IsReport
    /\ Cardinality(response.seen) = 3
    /\ Len(transactions) = 1
    /\ Report.transactions = <<>>
    /\ Len(Report.expenses) = 1

====
